---- MODULE Spec2Model ----
(***************************************************************************)
(* LatentNeRF (threestudio/systems/latentnerf.py): the scene-optimization  *)
(* controller's lifecycle hooks, forward pass, training-step loss          *)
(* composition and checkpoint filtering.                                   *)
(*                                                                         *)
(* Floating-point values are modelled as exact rationals extended with     *)
(* NaN and the two infinities; rounding is not modelled.                   *)
(***************************************************************************)
EXTENDS Integers, Sequences, FiniteSets, TLC

VARIABLES cfg, guidance, prompt_processor, shape_loss, constructed, started, ret

vars == <<cfg, guidance, prompt_processor, shape_loss, constructed, started, ret>>

(* Number of rays of a batch (the B*H*W entries of out["opacity"]). *)
NumRays == 2

-----------------------------------------------------------------------------
(* Floating-point numbers: k = "fin" is the rational n/d in lowest terms   *)
(* with d > 0; "nan", "pinf", "ninf" are the IEEE specials; "none" marks   *)
(* the absence of a value (no loss was returned).                          *)

RECURSIVE Gcd(_, _)
Gcd(a, b) == IF b = 0 THEN a ELSE Gcd(b, a % b)

Abs(a) == IF a < 0 THEN -a ELSE a

Fin(n, d) ==
    LET g == Gcd(Abs(n), Abs(d))
        s == IF d < 0 THEN -1 ELSE 1
    IN  [k |-> "fin", n |-> s * (n \div g), d |-> s * (d \div g)]

NaN == [k |-> "nan", n |-> 0, d |-> 1]
PInf == [k |-> "pinf", n |-> 0, d |-> 1]
NInf == [k |-> "ninf", n |-> 0, d |-> 1]
NoValue == [k |-> "none", n |-> 0, d |-> 1]
Zero == Fin(0, 1)

Sign(x) ==
    CASE x.k = "pinf" -> 1
      [] x.k = "ninf" -> -1
      [] x.k = "fin" -> (IF x.n > 0 THEN 1 ELSE IF x.n < 0 THEN -1 ELSE 0)
      [] OTHER -> 0

FAdd(x, y) ==
    CASE x.k = "nan" \/ y.k = "nan" -> NaN
      [] x.k = "fin" /\ y.k = "fin" ->
            LET l == (x.d \div Gcd(x.d, y.d)) * y.d
            IN  Fin(x.n * (l \div x.d) + y.n * (l \div y.d), l)
      [] x.k = "fin" -> y
      [] y.k = "fin" -> x
      [] x.k = y.k -> x
      [] OTHER -> NaN

FMul(x, y) ==
    CASE x.k = "nan" \/ y.k = "nan" -> NaN
      [] x.k = "fin" /\ y.k = "fin" -> Fin(x.n * y.n, x.d * y.d)
      [] Sign(x) * Sign(y) > 0 -> PInf
      [] Sign(x) * Sign(y) < 0 -> NInf
      [] OTHER -> NaN

FDiv(x, y) ==
    CASE x.k = "nan" \/ y.k = "nan" -> NaN
      [] x.k = "fin" /\ y.k = "fin" /\ y.n # 0 -> Fin(x.n * y.d, x.d * y.n)
      [] x.k = "fin" /\ y.k = "fin" ->
            (IF x.n = 0 THEN NaN ELSE IF x.n > 0 THEN PInf ELSE NInf)
      [] x.k = "fin" -> Zero
      [] y.k = "fin" -> (IF Sign(x) * (IF y.n < 0 THEN -1 ELSE 1) > 0 THEN PInf ELSE NInf)
      [] OTHER -> NaN

FNeg(x) ==
    CASE x.k = "fin" -> Fin(-x.n, x.d)
      [] x.k = "pinf" -> NInf
      [] x.k = "ninf" -> PInf
      [] OTHER -> x

FLess(x, y) ==
    CASE x.k = "nan" \/ y.k = "nan" -> FALSE
      [] x.k = "fin" /\ y.k = "fin" -> Sign(FAdd(y, FNeg(x))) > 0
      [] x.k = "ninf" -> y.k # "ninf"
      [] y.k = "pinf" -> x.k # "pinf"
      [] OTHER -> FALSE

IsFinite(x) == x.k = "fin"


RECURSIVE FSum(_)
FSum(s) == IF s = <<>> THEN Zero ELSE FAdd(Head(s), FSum(Tail(s)))

FMean(s) == FDiv(FSum(s), Fin(Len(s), 1))

RECURSIVE ISqrtIter(_, _)
ISqrtIter(n, x) ==
    LET y == (x + n \div x) \div 2
    IN  IF y >= x THEN x ELSE ISqrtIter(n, y)

ISqrt(n) == IF n = 0 THEN 0 ELSE ISqrtIter(n, n)

(* torch.sqrt on a non-negative finite value, to three decimals. *)
FSqrt(x) == Fin(ISqrt((x.n * 1000000) \div x.d), 1000)

(* Tensor.clamp_min / Tensor.clamp on finite values. *)
ClampMin(x, lo) == IF FLess(x, lo) THEN lo ELSE x

Clamp(x, lo, hi) == IF FLess(x, lo) THEN lo ELSE IF FLess(hi, x) THEN hi ELSE x

(* torch.log on the values a clamped opacity and its complement take, to   *)
(* three decimals.                                                         *)
FLog(x) ==
    CASE x = Fin(1, 1000) -> Fin(-6908, 1000)
      [] x = Fin(1, 2) -> Fin(-693, 1000)
      [] x = Fin(999, 1000) -> Fin(-1, 1000)

(* threestudio.utils.ops.binary_cross_entropy:                             *)
(*   -(target * log(input) + (1 - target) * log(1 - input)).mean()         *)
binary_cross_entropy(input, target) ==
    FNeg(FMean([i \in 1..Len(input) |->
        FAdd(FMul(target[i], FLog(input[i])),
             FMul(FAdd(Fin(1, 1), FNeg(target[i])),
                  FLog(FAdd(Fin(1, 1), FNeg(input[i])))))]))
-----------------------------------------------------------------------------
(* Python's None for self.guidance; a constructed instance is identified   *)
(* by the ordinal of the constructor call that made it.                    *)
None == 0

(* A tensor: its dimension order, what its contents were composited from,  *)
(* and the guidance instance whose decode_latents produced it (None if not *)
(* decoded).                                                               *)
NoTensor == [dims |-> <<>>, data |-> <<>>, decoder |-> None]

(* Tensor.permute: p is an order of 0-based dimension indices. *)
Permute(t, p) == [t EXCEPT !.dims = [i \in 1..Len(p) |-> t.dims[p[i] + 1]]]

(* guidance.decode_latents (external): keeps the layout, marks the decoder. *)
decode_latents(g, t) == [t EXCEPT !.decoder = g]

(* The values one ray of a render can take: n samples on the ray (0 or 1), *)
(* the sample's weight w and the dot product of its normal with its ray    *)
(* direction. The ray's accumulated opacity is the sum of its weights.     *)
RayVals ==
    { [n |-> 0, w |-> Zero, dot |-> Fin(1, 1)],
      [n |-> 1, w |-> Zero, dot |-> Fin(1, 1)],
      [n |-> 1, w |-> Fin(1, 2), dot |-> Fin(1, 1)],
      [n |-> 1, w |-> Fin(1, 1), dot |-> Fin(-1, 1)] }

AlwaysKeys == {"comp_rgb", "opacity", "weights", "points", "density"}

KeySets ==
    { AlwaysKeys \cup o \cup (IF "normal" \in o THEN {"comp_normal"} ELSE {})
        : o \in SUBSET {"normal", "t_dirs"} }

(* What the renderer can return for a batch; the composited colour is      *)
(* determined by the samples along the rays.                               *)
RenderOutputs ==
    { [keys |-> ks,
       comp_rgb |-> [dims |-> <<"B", "H", "W", "C">>, data |-> rs, decoder |-> None],
       rays |-> rs] : ks \in KeySets, rs \in [1..NumRays -> RayVals] }

NoRender == [keys |-> {}, comp_rgb |-> NoTensor, rays |-> <<>>]

NoOut == [keys |-> {}, comp_rgb |-> NoTensor, rays |-> <<>>, decoded_rgb |-> NoTensor]

(* out["opacity"]: one accumulated opacity per ray. *)
Opacity(out) == [i \in 1..Len(out.rays) |-> out.rays[i].w]

(* out["points"] / out["weights"] / out["normal"] / out["t_dirs"]: one     *)
(* entry per sample.                                                       *)
Samples(out) == SelectSeq(out.rays, LAMBDA r : r.n = 1)

(* The loss weights, self.C of each cfg.loss entry, at the current step. *)
LambdaVals ==
    [ sds : {0, 1}, orient : {-1, 0, 1}, sparsity : {0, 1}, opaque : {0, 1},
      shape : {0, 1} ]

NoLam == [sds |-> 0, orient |-> 0, sparsity |-> 0, opaque |-> 0, shape |-> 0]

(* guidance_out["sds"] and the value of self.shape_loss(points, density),  *)
(* both computed by external collaborators.                                *)
SdsVals == {Fin(3, 2)}

ShapeLossValue == Fin(2, 1)

NoTerms ==
    [sds |-> NoValue, orient |-> NoValue, sparsity |-> NoValue,
     opaque |-> NoValue, shape |-> NoValue]

-----------------------------------------------------------------------------
(* Checkpoint state dicts: a key is a sequence of atoms, "." being the     *)
(* separator character and every other atom a run of non-dot characters.   *)
Keys ==
    { <<"geometry", ".", "w">>,
      <<"guidance", ".", "w">>,
      <<"prompt_processor", ".", "w">>,
      <<"guidance">>,
      <<"geometry", ".", "guidance", ".", "w">>,
      <<"guidance_scale", ".", "w">> }

ParamVals == {1, 2}

StateDicts == UNION { [K -> ParamVals] : K \in SUBSET Keys }

EmptyDict == [k \in {} |-> 1]

RECURSIVE SplitAcc(_, _, _)
SplitAcc(k, cur, acc) ==
    IF k = <<>> THEN Append(acc, cur)
    ELSE IF Head(k) = "." THEN SplitAcc(Tail(k), <<>>, Append(acc, cur))
    ELSE SplitAcc(Tail(k), Append(cur, Head(k)), acc)

(* str.split("."): the components between the dots. *)
Split(k) == SplitAcc(k, <<>>, <<>>)

(* Mutation of KeepKey: every component is compared, not the first only. *)
KeepKeyAnyComponent(k) ==
    \A i \in 1..Len(Split(k)) :
        Split(k)[i] \notin {<<"prompt_processor">>, <<"guidance">>}

(* k.split(".")[0] not in ["prompt_processor", "guidance"] *)
KeepKey(k) == Split(k)[1] \notin {<<"prompt_processor">>, <<"guidance">>}

FilterStateDict(sd) == [k \in {x \in DOMAIN sd : KeepKey(x)} |-> sd[k]]

-----------------------------------------------------------------------------
(* The result of the call in progress, as handed back to the caller (the   *)
(* host training framework). op = "idle": no call is in progress.          *)
Blank ==
    [op |-> "idle", ok |-> TRUE, err |-> "none", pre |-> None,
     decode |-> FALSE, render |-> NoRender, lam |-> NoLam, sds |-> Zero,
     out |-> NoOut, loss |-> NoValue, terms |-> NoTerms, calls |-> {},
     logged |-> {}, sd_in |-> EmptyDict, sd_out |-> EmptyDict]

(* configure(): the state right after construction of the system. *)
Init ==
    /\ cfg \in [refinement : BOOLEAN, guide_shape : BOOLEAN]
    /\ guidance = None
    /\ prompt_processor = FALSE
    /\ shape_loss = cfg.guide_shape
    /\ constructed = 0
    /\ started = {}
    /\ ret = Blank

(* The framework calls one hook at a time. *)
Idle == ret.op = "idle"

(* Mutation of SetupGuidance: the None test is dropped. *)
SetupGuidanceAlways(g, c) == [guidance |-> c + 1, constructed |-> c + 1]

(* setup_guidance: g is self.guidance, c the number of guidance            *)
(* constructions so far.                                                   *)
SetupGuidance(g, c) ==
    IF g = None
    THEN [guidance |-> c + 1, constructed |-> c + 1]
    ELSE [guidance |-> g, constructed |-> c]

(* Mutation of PhaseStart: the refinement test is inverted. *)
PhaseStartInverted(refinement, g, c) ==
    IF refinement
    THEN SetupGuidance(g, c)
    ELSE [guidance |-> g, constructed |-> c]

(* The body shared by on_validation_start and on_test_start. *)
PhaseStart(refinement, g, c) ==
    IF ~refinement
    THEN SetupGuidance(g, c)
    ELSE [guidance |-> g, constructed |-> c]

setup_guidance ==
    LET r == SetupGuidance(guidance, constructed)
    IN  /\ Idle
        /\ guidance' = r.guidance
        /\ constructed' = r.constructed
        /\ ret' = [Blank EXCEPT !.op = "setup_guidance", !.pre = guidance]
        /\ UNCHANGED <<cfg, prompt_processor, shape_loss, started>>

on_fit_start ==
    LET r == SetupGuidance(guidance, constructed)
    IN  /\ Idle
        /\ prompt_processor' = TRUE
        /\ guidance' = r.guidance
        /\ constructed' = r.constructed
        /\ ret' = [Blank EXCEPT !.op = "on_fit_start", !.pre = guidance]
        /\ UNCHANGED <<cfg, shape_loss, started>>

on_validation_start ==
    LET r == PhaseStart(cfg.refinement, guidance, constructed)
    IN  /\ Idle
        /\ guidance' = r.guidance
        /\ constructed' = r.constructed
        /\ started' = started \cup {"validation"}
        /\ ret' = [Blank EXCEPT !.op = "on_validation_start", !.pre = guidance]
        /\ UNCHANGED <<cfg, prompt_processor, shape_loss>>

on_test_start ==
    LET r == PhaseStart(cfg.refinement, guidance, constructed)
    IN  /\ Idle
        /\ guidance' = r.guidance
        /\ constructed' = r.constructed
        /\ started' = started \cup {"test"}
        /\ ret' = [Blank EXCEPT !.op = "on_test_start", !.pre = guidance]
        /\ UNCHANGED <<cfg, prompt_processor, shape_loss>>

-----------------------------------------------------------------------------
(* Mutation of Forward: the refinement branch is missing, every decoding   *)
(* call goes through the guidance decoder.                                 *)
ForwardAlwaysDecodes(render, decode) ==
    LET out == [keys |-> render.keys, comp_rgb |-> render.comp_rgb,
                rays |-> render.rays, decoded_rgb |-> NoTensor]
    IN  IF ~decode
        THEN [ok |-> TRUE, err |-> "none", out |-> out, calls |-> {"renderer"}]
        ELSE IF guidance = None
        THEN [ok |-> FALSE, err |-> "AttributeError", out |-> NoOut,
              calls |-> {"renderer"}]
        ELSE [ok |-> TRUE, err |-> "none",
              out |-> [out EXCEPT !.keys = @ \cup {"decoded_rgb"},
                                  !.decoded_rgb =
                                      Permute(decode_latents(guidance,
                                                  Permute(out.comp_rgb, <<0, 3, 1, 2>>)),
                                              <<0, 2, 3, 1>>)],
              calls |-> {"renderer", "decode_latents"}]

(* forward(batch, decode): render is what the renderer returns for batch.  *)
(* The guidance model is dereferenced only on the decoding, non-refinement *)
(* path; None there is an AttributeError.                                  *)
Forward(render, decode) ==
    LET out == [keys |-> render.keys, comp_rgb |-> render.comp_rgb,
                rays |-> render.rays, decoded_rgb |-> NoTensor]
    IN  IF ~decode
        THEN [ok |-> TRUE, err |-> "none", out |-> out, calls |-> {"renderer"}]
        ELSE IF cfg.refinement
        THEN [ok |-> TRUE, err |-> "none",
              out |-> [out EXCEPT !.keys = @ \cup {"decoded_rgb"},
                                  !.decoded_rgb = out.comp_rgb],
              calls |-> {"renderer"}]
        ELSE IF guidance = None
        THEN [ok |-> FALSE, err |-> "AttributeError", out |-> NoOut,
              calls |-> {"renderer"}]
        ELSE [ok |-> TRUE, err |-> "none",
              out |-> [out EXCEPT !.keys = @ \cup {"decoded_rgb"},
                                  !.decoded_rgb =
                                      Permute(decode_latents(guidance,
                                                  Permute(out.comp_rgb, <<0, 3, 1, 2>>)),
                                              <<0, 2, 3, 1>>)],
              calls |-> {"renderer", "decode_latents"}]

forward ==
    \E render \in RenderOutputs, decode \in BOOLEAN :
        LET r == Forward(render, decode)
        IN  /\ Idle
            /\ ret' = [Blank EXCEPT !.op = "forward", !.pre = guidance,
                                    !.decode = decode, !.render = render,
                                    !.ok = r.ok, !.err = r.err, !.out = r.out,
                                    !.calls = r.calls]
            /\ UNCHANGED <<cfg, guidance, prompt_processor, shape_loss,
                           constructed, started>>

(* validation_step and test_step: forward with decoding, then the image    *)
(* grid export (external); the body of the two is the same.                *)
EvalStep(render) ==
    LET r == Forward(render, TRUE)
    IN  IF r.ok THEN [r EXCEPT !.calls = @ \cup {"save_image_grid"}] ELSE r

validation_step ==
    \E render \in RenderOutputs :
        LET r == EvalStep(render)
        IN  /\ Idle
            /\ ret' = [Blank EXCEPT !.op = "validation_step", !.pre = guidance,
                                    !.decode = TRUE, !.render = render,
                                    !.ok = r.ok, !.err = r.err, !.out = r.out,
                                    !.calls = r.calls]
            /\ UNCHANGED <<cfg, guidance, prompt_processor, shape_loss,
                           constructed, started>>

test_step ==
    \E render \in RenderOutputs :
        LET r == EvalStep(render)
        IN  /\ Idle
            /\ ret' = [Blank EXCEPT !.op = "test_step", !.pre = guidance,
                                    !.decode = TRUE, !.render = render,
                                    !.ok = r.ok, !.err = r.err, !.out = r.out,
                                    !.calls = r.calls]
            /\ UNCHANGED <<cfg, guidance, prompt_processor, shape_loss,
                           constructed, started>>

-----------------------------------------------------------------------------
(* training_step. A stage takes the running state st of the step           *)
(*   ok, err   whether an exception has been raised, and which             *)
(*   loss      the running total                                           *)
(*   terms     the loss terms computed so far                              *)
(*   calls     the collaborators invoked, logged the names self.log got    *)
(* and returns the state after it; a raised exception skips the rest.      *)
Raise(st, e) == [st EXCEPT !.ok = FALSE, !.err = e, !.loss = NoValue]

(* out = self(batch) *)
RenderStage(render) ==
    LET r == Forward(render, FALSE)
    IN  [ok |-> r.ok, err |-> r.err, out |-> r.out, loss |-> NoValue,
         terms |-> NoTerms, calls |-> r.calls, logged |-> {}]

(* text_embeddings = self.prompt_processor(batch fields): the attribute is *)
(* set by on_fit_start only.                                               *)
PromptStage(st) ==
    IF ~st.ok THEN st
    ELSE IF ~prompt_processor THEN Raise(st, "AttributeError")
    ELSE [st EXCEPT !.calls = @ \cup {"prompt_processor"}]

(* guidance_out = self.guidance(out["comp_rgb"], ...)  -- calling None is  *)
(* a TypeError. Then loss = 0.0; loss += guidance_out["sds"] * C(sds).     *)
GuidanceStage(st, sds, lam) ==
    IF ~st.ok THEN st
    ELSE IF guidance = None THEN Raise(st, "TypeError")
    ELSE [st EXCEPT !.calls = @ \cup {"guidance"},
                    !.terms.sds = sds,
                    !.loss = FAdd(Zero, FMul(sds, Fin(lam.sds, 1)))]

(* (weights * dot(normal, t_dirs).clamp_min(0) ** 2).sum()                 *)
(*     / (opacity > 0).sum()                                               *)
OrientLoss(out) ==
    LET smp == Samples(out)
        opa == Opacity(out)
        num == FSum([i \in 1..Len(smp) |->
                   FMul(smp[i].w,
                        FMul(ClampMin(smp[i].dot, Zero), ClampMin(smp[i].dot, Zero)))])
        cnt == Cardinality({i \in 1..Len(opa) : FLess(Zero, opa[i])})
    IN  FDiv(num, Fin(cnt, 1))

(* Mutation of OrientStage: the weight is tested with >= instead of >. *)
OrientStageGe(st, lam) ==
    IF ~st.ok THEN st
    ELSE IF lam.orient >= 0
    THEN IF "normal" \notin st.out.keys THEN Raise(st, "ValueError")
         ELSE IF "weights" \notin st.out.keys \/ "t_dirs" \notin st.out.keys
                    \/ "opacity" \notin st.out.keys
         THEN Raise(st, "KeyError")
         ELSE LET loss_orient == OrientLoss(st.out)
              IN  [st EXCEPT !.terms.orient = loss_orient,
                             !.logged = @ \cup {"train/loss_orient"},
                             !.loss = FAdd(@, FMul(loss_orient, Fin(lam.orient, 1)))]
    ELSE st

(* Mutation of OrientStage: a missing "t_dirs" is read with a default of   *)
(* zero directions instead of a subscript.                                 *)
OrientStageDefaultDirs(st, lam) ==
    IF ~st.ok THEN st
    ELSE IF lam.orient > 0
    THEN IF "normal" \notin st.out.keys THEN Raise(st, "ValueError")
         ELSE IF "weights" \notin st.out.keys \/ "opacity" \notin st.out.keys
         THEN Raise(st, "KeyError")
         ELSE LET loss_orient ==
                      IF "t_dirs" \in st.out.keys THEN OrientLoss(st.out) ELSE Zero
              IN  [st EXCEPT !.terms.orient = loss_orient,
                             !.logged = @ \cup {"train/loss_orient"},
                             !.loss = FAdd(@, FMul(loss_orient, Fin(lam.orient, 1)))]
    ELSE st

OrientStage(st, lam) ==
    IF ~st.ok THEN st
    ELSE IF lam.orient > 0
    THEN IF "normal" \notin st.out.keys THEN Raise(st, "ValueError")
         ELSE IF "weights" \notin st.out.keys \/ "t_dirs" \notin st.out.keys
                    \/ "opacity" \notin st.out.keys
         THEN Raise(st, "KeyError")
         ELSE LET loss_orient == OrientLoss(st.out)
              IN  [st EXCEPT !.terms.orient = loss_orient,
                             !.logged = @ \cup {"train/loss_orient"},
                             !.loss = FAdd(@, FMul(loss_orient, Fin(lam.orient, 1)))]
    ELSE st

(* (opacity ** 2 + 0.01).sqrt().mean() *)
SparsityLoss(out) ==
    LET opa == Opacity(out)
    IN  FMean([i \in 1..Len(opa) |->
            FSqrt(FAdd(FMul(opa[i], opa[i]), Fin(1, 100)))])

SparsityStage(st, lam) ==
    IF ~st.ok THEN st
    ELSE LET loss_sparsity == SparsityLoss(st.out)
         IN  [st EXCEPT !.terms.sparsity = loss_sparsity,
                        !.logged = @ \cup {"train/loss_sparsity"},
                        !.loss = FAdd(@, FMul(loss_sparsity, Fin(lam.sparsity, 1)))]

(* opacity_clamped = opacity.clamp(1e-3, 1 - 1e-3);                        *)
(* binary_cross_entropy(opacity_clamped, opacity_clamped)                  *)
OpaqueLoss(out) ==
    LET opa == Opacity(out)
        opacity_clamped ==
            [i \in 1..Len(opa) |-> Clamp(opa[i], Fin(1, 1000), Fin(999, 1000))]
    IN  binary_cross_entropy(opacity_clamped, opacity_clamped)

OpaqueStage(st, lam) ==
    IF ~st.ok THEN st
    ELSE LET loss_opaque == OpaqueLoss(st.out)
         IN  [st EXCEPT !.terms.opaque = loss_opaque,
                        !.logged = @ \cup {"train/loss_opaque"},
                        !.loss = FAdd(@, FMul(loss_opaque, Fin(lam.opaque, 1)))]

(* Mutation of ShapeStage: the test of the number of sample points is      *)
(* dropped.                                                                *)
ShapeStageNoPointsTest(st, lam) ==
    IF ~st.ok THEN st
    ELSE IF lam.shape > 0
    THEN IF ~shape_loss THEN Raise(st, "AttributeError")
         ELSE [st EXCEPT !.calls = @ \cup {"shape_loss"},
                         !.terms.shape = ShapeLossValue,
                         !.logged = @ \cup {"train/loss_shape"},
                         !.loss = FAdd(@, FMul(ShapeLossValue, Fin(lam.shape, 1)))]
    ELSE st

(* Mutation of ShapeStage: the term is skipped when no evaluator was       *)
(* configured.                                                             *)
ShapeStageIfConfigured(st, lam) ==
    IF ~st.ok THEN st
    ELSE IF lam.shape > 0 /\ Len(Samples(st.out)) > 0 /\ shape_loss
    THEN [st EXCEPT !.calls = @ \cup {"shape_loss"},
                    !.terms.shape = ShapeLossValue,
                    !.logged = @ \cup {"train/loss_shape"},
                    !.loss = FAdd(@, FMul(ShapeLossValue, Fin(lam.shape, 1)))]
    ELSE st

(* if C(lambda_shape) > 0 and out["points"].shape[0] > 0: self.shape_loss  *)
(* exists only when configure found a guide_shape.                         *)
ShapeStage(st, lam) ==
    IF ~st.ok THEN st
    ELSE IF lam.shape > 0 /\ Len(Samples(st.out)) > 0
    THEN IF ~shape_loss THEN Raise(st, "AttributeError")
         ELSE [st EXCEPT !.calls = @ \cup {"shape_loss"},
                         !.terms.shape = ShapeLossValue,
                         !.logged = @ \cup {"train/loss_shape"},
                         !.loss = FAdd(@, FMul(ShapeLossValue, Fin(lam.shape, 1)))]
    ELSE st

(* for name, value in self.cfg.loss.items(): self.log(...) *)
ParamsStage(st) ==
    IF ~st.ok THEN st
    ELSE [st EXCEPT !.logged = @ \cup {"train_params"}]

TrainingStep(render, sds, lam) ==
    ParamsStage(
      ShapeStage(
        OpaqueStage(
          SparsityStage(
            OrientStage(
              GuidanceStage(PromptStage(RenderStage(render)), sds, lam),
              lam),
            lam),
          lam),
        lam))

training_step ==
    /\ Idle
    /\ \E render \in RenderOutputs, sds \in SdsVals, lam \in LambdaVals :
        \E r \in {TrainingStep(render, sds, lam)} :
            /\ ret' = [Blank EXCEPT !.op = "training_step", !.pre = guidance,
                                    !.render = render, !.sds = sds, !.lam = lam,
                                    !.ok = r.ok, !.err = r.err,
                                    !.out = (IF r.ok THEN r.out ELSE NoOut),
                                    !.loss = r.loss, !.terms = r.terms,
                                    !.calls = r.calls, !.logged = r.logged]
            /\ UNCHANGED <<cfg, guidance, prompt_processor, shape_loss,
                           constructed, started>>

-----------------------------------------------------------------------------
(* on_save_checkpoint: checkpoint["state_dict"] is replaced by its filter. *)
on_save_checkpoint ==
    \E sd \in StateDicts :
        /\ Idle
        /\ ret' = [Blank EXCEPT !.op = "on_save_checkpoint", !.pre = guidance,
                                !.sd_in = sd, !.sd_out = FilterStateDict(sd)]
        /\ UNCHANGED <<cfg, guidance, prompt_processor, shape_loss,
                       constructed, started>>

(* The call in progress returns and the caller takes its result. *)
Return ==
    /\ ~Idle
    /\ ret' = Blank
    /\ UNCHANGED <<cfg, guidance, prompt_processor, shape_loss, constructed,
                   started>>

Next ==
    \/ setup_guidance
    \/ on_fit_start
    \/ on_validation_start
    \/ on_test_start
    \/ forward
    \/ validation_step
    \/ test_step
    \/ training_step
    \/ on_save_checkpoint
    \/ Return

Spec == Init /\ [][Next]_vars
-----------------------------------------------------------------------------
(* Definitions used by the properties below. They restate what is expected *)
(* of a result from the recorded inputs, independently of the operators    *)
(* above.                                                                  *)

(* The prefix of a key before its first dot. *)
FirstComponent(k) ==
    LET dots == {i \in 1..Len(k) : k[i] = "."}
        j == IF dots = {} THEN Len(k) + 1
             ELSE CHOOSE i \in dots : \A m \in dots : i <= m
    IN  SubSeq(k, 1, j - 1)

(* lambda * term for a computed term, 0 for a term that was not computed. *)
Contribution(term, weight) ==
    IF term = NoValue THEN Zero ELSE FMul(term, Fin(weight, 1))

(* The number of sample points of the recorded render. *)
NumPoints == Cardinality({i \in 1..Len(ret.render.rays) : ret.render.rays[i].n = 1})

Trained == ret.op = "training_step"

(* C1: within one run the guidance model is constructed at most once; a    *)
(* hook or setup_guidance call that finds an instance leaves it unchanged, *)
(* and one that finds none (and is to construct) makes the first instance. *)
C1_GuidanceConstructedAtMostOnce ==
    /\ constructed <= 1
    /\ (guidance = None) <=> (constructed = 0)
    /\ ret.op \in {"setup_guidance", "on_fit_start", "on_validation_start",
                   "on_test_start"} /\ ret.pre # None
          => guidance = ret.pre
    /\ ret.op \in {"setup_guidance", "on_fit_start"} => guidance # None

C1_Witness ==
    /\ ret.op = "setup_guidance"
    /\ ret.pre # None
    /\ started = {"validation", "test"}
    /\ prompt_processor
    /\ constructed = 1

(* C2: on_save_checkpoint keeps exactly the entries whose key's first      *)
(* dot-separated component is neither "prompt_processor" nor "guidance",   *)
(* each with its value unchanged.                                          *)
C2_CheckpointFilter ==
    ret.op = "on_save_checkpoint" =>
        /\ DOMAIN ret.sd_out =
              {k \in DOMAIN ret.sd_in :
                  /\ FirstComponent(k) # <<"prompt_processor">>
                  /\ FirstComponent(k) # <<"guidance">>}
        /\ \A k \in DOMAIN ret.sd_out : ret.sd_out[k] = ret.sd_in[k]

C2_Witness ==
    /\ ret.op = "on_save_checkpoint"
    /\ DOMAIN ret.sd_in = {<<"geometry", ".", "w">>, <<"guidance", ".", "w">>,
                           <<"prompt_processor", ".", "w">>}
    /\ DOMAIN ret.sd_out = {<<"geometry", ".", "w">>}

(* C3: with lambda_orient > 0 and no "normal" in the render output the     *)
(* training step raises and returns no loss; with lambda_orient <= 0 the   *)
(* orientation loss is not computed and adds nothing to the total,         *)
(* whether or not "normal" is present.                                     *)
C3_OrientationGuard ==
    Trained =>
        /\ ret.lam.orient > 0 /\ "normal" \notin ret.render.keys
              => ~ret.ok /\ ret.err # "none" /\ ret.loss = NoValue
        /\ ret.lam.orient <= 0
              => /\ ret.terms.orient = NoValue
                 /\ "train/loss_orient" \notin ret.logged
                 /\ ret.ok =>
                       ret.loss = FSum(<<Contribution(ret.terms.sds, ret.lam.sds),
                                         Contribution(ret.terms.sparsity, ret.lam.sparsity),
                                         Contribution(ret.terms.opaque, ret.lam.opaque),
                                         Contribution(ret.terms.shape, ret.lam.shape)>>)

C3_Witness ==
    /\ Trained
    /\ ret.lam.orient > 0
    /\ "normal" \notin ret.render.keys
    /\ "guidance" \in ret.calls
    /\ ret.err = "ValueError"

(* C4: with lambda_orient > 0 the training step needs both "normal" and    *)
(* "t_dirs" in the render output; if either is absent it ends in an error  *)
(* and returns no loss.                                                    *)
C4_OrientationNeedsNormalAndDirs ==
    Trained /\ ret.lam.orient > 0
        /\ ("normal" \notin ret.render.keys \/ "t_dirs" \notin ret.render.keys)
        => ~ret.ok /\ ret.err # "none" /\ ret.loss = NoValue

C4_Witness ==
    /\ Trained
    /\ ret.lam.orient > 0
    /\ "normal" \in ret.render.keys
    /\ "t_dirs" \notin ret.render.keys
    /\ "guidance" \in ret.calls
    /\ ret.err = "KeyError"

(* C5: when the render has zero sample points the shape-loss evaluator is  *)
(* not invoked and the shape term adds nothing to the total, whatever      *)
(* lambda_shape is and whether or not a target shape was configured; the   *)
(* missing evaluator does not make the step fail.                          *)
C5_ShapeSkippedWithoutPoints ==
    Trained /\ NumPoints = 0 =>
        /\ "shape_loss" \notin ret.calls
        /\ ret.terms.shape = NoValue
        /\ "train/loss_shape" \notin ret.logged
        /\ ret.ok =>
              ret.loss = FSum(<<Contribution(ret.terms.sds, ret.lam.sds),
                                Contribution(ret.terms.orient, ret.lam.orient),
                                Contribution(ret.terms.sparsity, ret.lam.sparsity),
                                Contribution(ret.terms.opaque, ret.lam.opaque)>>)
        /\ "guidance" \in ret.calls
              /\ (ret.lam.orient > 0 => {"normal", "t_dirs"} \subseteq ret.render.keys)
              => ret.ok

C5_Witness ==
    /\ Trained
    /\ NumPoints = 0
    /\ ret.lam.shape > 0
    /\ ~shape_loss
    /\ ret.ok
    /\ IsFinite(ret.loss)

(* C6: a forward call that returns gives, with decode and refinement, a    *)
(* "decoded_rgb" equal to the render's "comp_rgb" without a call of the    *)
(* guidance decoder; with decode and no refinement, a "decoded_rgb" that   *)
(* is the guidance instance's decode_latents of "comp_rgb", in the layout  *)
(* of "comp_rgb"; without decode, the render output and no "decoded_rgb".  *)
C6_ForwardDecode ==
    ret.op = "forward" =>
        /\ ret.decode /\ cfg.refinement =>
              /\ ret.ok
              /\ ret.out.keys = ret.render.keys \cup {"decoded_rgb"}
              /\ ret.out.decoded_rgb = ret.render.comp_rgb
              /\ "decode_latents" \notin ret.calls
        /\ ret.decode /\ ~cfg.refinement /\ ret.ok =>
              /\ guidance # None
              /\ ret.out.keys = ret.render.keys \cup {"decoded_rgb"}
              /\ ret.out.decoded_rgb.dims = ret.render.comp_rgb.dims
              /\ ret.out.decoded_rgb.data = ret.render.comp_rgb.data
              /\ ret.out.decoded_rgb.decoder = guidance
              /\ ret.out.decoded_rgb # ret.render.comp_rgb
              /\ "decode_latents" \in ret.calls
        /\ ~ret.decode =>
              /\ ret.ok
              /\ ret.out.keys = ret.render.keys
              /\ "decoded_rgb" \notin ret.out.keys
              /\ ret.out.decoded_rgb = NoTensor
        /\ ret.ok =>
              /\ ret.out.comp_rgb = ret.render.comp_rgb
              /\ ret.out.rays = ret.render.rays

C6_Witness ==
    /\ ret.op = "forward"
    /\ ret.decode
    /\ cfg.refinement
    /\ guidance = None
    /\ ret.ok
    /\ ret.out.decoded_rgb = ret.render.comp_rgb

(* C7: a training step that returns, returns a finite loss, also when no   *)
(* ray has opacity > 0 and lambda_orient > 0.                              *)
C7_LossIsFinite ==
    Trained /\ ret.ok => IsFinite(ret.loss)

(* C8: the loss a training step returns is the sum of sds * lambda_sds,    *)
(* orientation * lambda_orient if lambda_orient > 0, sparsity *            *)
(* lambda_sparsity, opaque * lambda_opaque and shape * lambda_shape if     *)
(* lambda_shape > 0 and there is a sample point; and raising one weight    *)
(* from zero, the others fixed, strictly increases the returned loss when  *)
(* that weight's term is positive.                                         *)
C8_SumOfTerms ==
    Trained /\ ret.ok =>
        /\ (ret.terms.orient # NoValue) <=> (ret.lam.orient > 0)
        /\ (ret.terms.shape # NoValue) <=> (ret.lam.shape > 0 /\ NumPoints > 0)
        /\ ret.terms.sds \in SdsVals
        /\ ret.terms.sparsity # NoValue /\ ret.terms.opaque # NoValue
        /\ ret.loss = FSum(<<Contribution(ret.terms.sds, ret.lam.sds),
                             Contribution(ret.terms.orient, ret.lam.orient),
                             Contribution(ret.terms.sparsity, ret.lam.sparsity),
                             Contribution(ret.terms.opaque, ret.lam.opaque),
                             Contribution(ret.terms.shape, ret.lam.shape)>>)

C8_RaisedWeightIncreasesLoss ==
    Trained /\ ret.ok =>
        \A name \in {"sds", "orient", "sparsity", "opaque", "shape"} :
            ret.lam[name] = 0 =>
                LET raised == TrainingStep(ret.render, ret.sds,
                                           [ret.lam EXCEPT ![name] = 1])
                IN  raised.ok /\ FLess(Zero, raised.terms[name])
                        => FLess(ret.loss, raised.loss)

C8_LossComposition == C8_SumOfTerms /\ C8_RaisedWeightIncreasesLoss

(* C9: a training step that requests the shape loss when no evaluator was  *)
(* configured, or that runs while no guidance instance exists, ends in an  *)
(* error of the language runtime and returns no loss; a ValueError is      *)
(* raised by the orientation check only.                                   *)
C9_UnhandledRuntimeErrors ==
    Trained /\ ( \/ ret.lam.shape > 0 /\ NumPoints > 0 /\ ~shape_loss
                 \/ guidance = None )
        => /\ ~ret.ok
           /\ ret.loss = NoValue
           /\ ret.err \in {"AttributeError", "TypeError", "KeyError", "ValueError"}
           /\ ret.err = "ValueError"
                 => ret.lam.orient > 0 /\ "normal" \notin ret.render.keys
           /\ ret.err = "KeyError"
                 => ret.lam.orient > 0 /\ "t_dirs" \notin ret.render.keys

C9_Witness ==
    /\ Trained
    /\ ret.lam.shape > 0
    /\ NumPoints > 0
    /\ ~shape_loss
    /\ "guidance" \in ret.calls
    /\ ret.err = "AttributeError"

(* C10: a validation or test step that comes after its phase-start hook    *)
(* never decodes through a missing guidance instance: without refinement   *)
(* the hook has made sure the instance exists and the step decodes through *)
(* it; with refinement the hook constructs nothing and the step does not   *)
(* touch the guidance. This holds also when on_fit_start never ran.        *)
C10_EvalStepAfterPhaseStart ==
    /\ ( \/ ret.op = "validation_step" /\ "validation" \in started
         \/ ret.op = "test_step" /\ "test" \in started )
          => /\ ret.ok
             /\ ~cfg.refinement =>
                   guidance # None /\ ret.out.decoded_rgb.decoder = guidance
             /\ cfg.refinement =>
                   "decode_latents" \notin ret.calls
                       /\ ret.out.decoded_rgb = ret.render.comp_rgb
    /\ ret.op \in {"on_validation_start", "on_test_start"}
          => IF cfg.refinement THEN guidance = ret.pre ELSE guidance # None

C10_Witness ==
    /\ ret.op = "validation_step"
    /\ "validation" \in started
    /\ ~prompt_processor
    /\ ~cfg.refinement
    /\ ret.ok
    /\ ret.out.decoded_rgb.decoder = guidance
====
